---- MODULE Spec2Model ----
(***************************************************************************)
(* Model of src/httpd/apihandler.c: the API request handler of the         *)
(* Armadito HTTP daemon.  One request at a time walks through              *)
(* api_handler_serve: pre-check, body parsing, parameter check, processing *)
(* and response queueing.  JSON values are reference counted as jansson    *)
(* does it; responses are recorded as they are queued on the connection.   *)
(***************************************************************************)
EXTENDS Integers, Sequences, FiniteSets, TLC

VARIABLES
    pc,               \* position inside api_handler_serve
    req,              \* the request: path, method and the headers of the connection
    post_data,        \* the request body (a sequence of bytes); post_data_size is its length
    endpoint,         \* *p_endpoint, a path of api_endpoint_table or NULL
    http_status_code, \* result of api_handler_pre_check
    response,         \* *p_error_response, the name of a standard response or NULL
    j_request,        \* parsed request body or NULL
    j_response,       \* payload set by the process callback or NULL
    ret,              \* return value of the process callback
    a,                \* the api_handler: its client table and its six standard responses
    mhd,              \* MHD responses: created and destroyed for the request, standard ones destroyed
    freed,            \* clients released by api_client_free: client -> number of calls
    last,             \* the last registry operation: arguments, result, registry before it
    lookups,          \* tokens looked up in the client table
    th,               \* the worker threads inside a registry operation
    done_ops,         \* registry operations the worker threads have completed
    heap,             \* jansson objects of the request: reference count, creations, destructions, value
    members,          \* members of the j_error object: key -> jansson object
    calls,            \* callbacks invoked for the request, in order
    log,              \* warnings logged for the request, in order
    queued            \* responses queued on the connection for the request, in order

\* the state of the client registry and of its callers
regvars == <<freed, last, lookups, th, done_ops>>

\* the state of the request in api_handler_serve
reqvars == <<pc, req, post_data, endpoint, http_status_code, response, j_request,
             j_response, ret, heap, members, calls, log, queued>>

vars == <<pc, req, post_data, endpoint, http_status_code, response, j_request,
          j_response, ret, a, mhd, heap, members, calls, log, queued, regvars>>

NULL == "NULL"

(***************************************************************************)
(* Bounds of the model.                                                    *)
(***************************************************************************)
MaxCtLen == 3   \* longest Content-Type header, in tokens
MaxBody == 3    \* longest request body, in bytes
MaxClients == 3 \* api_client objects the callers of the registry create

(***************************************************************************)
(* Program constants.                                                      *)
(***************************************************************************)
MHD_HTTP_OK == 200
MHD_HTTP_BAD_REQUEST == 400
MHD_HTTP_FORBIDDEN == 403
MHD_HTTP_NOT_FOUND == 404
MHD_HTTP_METHOD_NOT_ALLOWED == 405
MHD_HTTP_UNSUPPORTED_MEDIA_TYPE == 415
MHD_HTTP_UNPROCESSABLE_ENTITY == 422
MHD_HTTP_INTERNAL_SERVER_ERROR == 500

JSON_400 == "{\"code\":400, \"message\": \"Bad Request. Make sure your request has a X-Armadito-Token header and if POST request contains valid JSON\"}"
JSON_403 == "{\"code\":403, \"message\": \"Request forbidden. Make sure your request has a User-Agent header\"}"
JSON_404 == "{\"code\":404, \"message\": \"Not found\"}"
JSON_405 == "{\"code\":405, \"message\": \"Method not allowed\"}"
JSON_415 == "{\"code\":415, \"message\": \"Unsupported Media Type. Content-Type must be application/json\"}"
JSON_422 == "{\"code\":422, \"message\": \"Unprocessable request. Make sure the JSON request is valid\"}"

HTTP_METHOD_GET == "GET"
HTTP_METHOD_POST == "POST"
HTTP_METHOD_OTHER == "OTHER"
Methods == {HTTP_METHOD_GET, HTTP_METHOD_POST, HTTP_METHOD_OTHER}

(***************************************************************************)
(* The endpoint table.  accepted_methods is a bit mask in the source; it   *)
(* is the set of the methods whose bit is set here.                        *)
(***************************************************************************)
Endpoint(path, accepted, need_token, process_cb, check_cb) ==
    [path |-> path, accepted_methods |-> accepted, need_token |-> need_token,
     process_cb |-> process_cb, check_cb |-> check_cb]

api_endpoint_table ==
    << Endpoint("/register", {HTTP_METHOD_GET}, 0, "register_process_cb", NULL),
       Endpoint("/unregister", {HTTP_METHOD_GET}, 1, "unregister_process_cb", NULL),
       Endpoint("/ping", {HTTP_METHOD_GET}, 1, "ping_process_cb", NULL),
       Endpoint("/event", {HTTP_METHOD_GET}, 1, "event_process_cb", NULL),
       Endpoint("/scan", {HTTP_METHOD_POST}, 1, "scan_process_cb", "scan_check_cb"),
       Endpoint("/status", {HTTP_METHOD_GET}, 0, "status_process_cb", NULL),
       Endpoint("/browse", {HTTP_METHOD_GET}, 0, "browse_process_cb", NULL),
       Endpoint("/version", {HTTP_METHOD_GET}, 0, "version_process_cb", NULL),
       Endpoint(NULL, {}, 0, NULL, NULL) >>

\* index of the first table entry that ends the loop of get_api_endpoint
RECURSIVE EndpointScan(_, _)
EndpointScan(p, path) ==
    IF api_endpoint_table[p].path # NULL /\ api_endpoint_table[p].path # path
    THEN EndpointScan(p + 1, path)
    ELSE p

\* the index of the table entry of path, or NoEndpoint for the NULL pointer
NoEndpoint == 0
get_api_endpoint(path) ==
    LET p == EndpointScan(1, path)
    IN  IF api_endpoint_table[p].path # NULL THEN p ELSE NoEndpoint

(***************************************************************************)
(* Request headers.  A header that may be absent is NULL or its value; the *)
(* Content-Type header is a sequence of tokens, <<>> when absent and       *)
(* <<value>> when present, ";" being the one-character token.              *)
(***************************************************************************)
CtTokens == {"application/json", ";", " charset=utf-8", "text/plain"}

RECURSIVE SeqsUpTo(_, _)
SeqsUpTo(S, n) ==
    IF n = 0 THEN {<<>>}
    ELSE LET shorter == SeqsUpTo(S, n - 1)
         IN  shorter \cup {Append(s, x) : s \in shorter, x \in S}

ContentTypes == {<<>>} \cup {<<s>> : s \in SeqsUpTo(CtTokens, MaxCtLen)}

api_get_user_agent(connection) == connection.user_agent

api_get_token(connection) == connection.token

\* strchr: index of the first occurrence of c in s, 0 when there is none
RECURSIVE strchr_from(_, _, _)
strchr_from(s, c, i) ==
    IF i > Len(s) THEN 0
    ELSE IF s[i] = c THEN i
    ELSE strchr_from(s, c, i + 1)

strchr(s, c) == strchr_from(s, c, 1)

\* api_get_content_type without the cut at ';': the whole header is returned
api_get_content_type_whole(connection) ==
    IF connection.content_type = <<>> THEN <<>>
    ELSE <<connection.content_type[1]>>

\* <<>> for NULL, else <<the header up to its first ';'>>
api_get_content_type(connection) ==
    IF connection.content_type = <<>> THEN <<>>
    ELSE LET s_content_type == connection.content_type[1]
             param == strchr(s_content_type, ";")
         IN  IF param # 0 /\ param > 1
             THEN <<SubSeq(s_content_type, 1, param - 1)>>
             ELSE <<s_content_type>>

\* the method test written with && instead of &
method_not_accepted_logical(ep, method) == api_endpoint_table[ep].accepted_methods = {}

\* (endpoint->accepted_methods & method) == 0
method_not_accepted(ep, method) == method \notin api_endpoint_table[ep].accepted_methods

(***************************************************************************)
(* api_handler_pre_check: status, error response, endpoint and the         *)
(* warning it logs.                                                        *)
(***************************************************************************)
Warning(fmt, path) == [fmt |-> fmt, path |-> path]

PreCheckResult(status, resp, ep, warnings) ==
    [status |-> status, response |-> resp, endpoint |-> ep, log |-> warnings]

\* Two variants with one gate out of place, then the function as written.
\* api_handler_pre_check with the token gate ahead of the User-Agent gate
api_handler_pre_check_token_first(connection, method, path) ==
    LET ep == get_api_endpoint(path)
        content_type == api_get_content_type(connection)
    IN  IF ep = NoEndpoint
        THEN PreCheckResult(MHD_HTTP_NOT_FOUND, "response_404", ep,
                 <<Warning("request to API invalid path %s", path)>>)
        ELSE IF api_endpoint_table[ep].need_token # 0 /\ api_get_token(connection) = NULL
        THEN PreCheckResult(MHD_HTTP_BAD_REQUEST, "response_400", ep,
                 <<Warning("request to API path %s has no X-Armadito-Token header", path)>>)
        ELSE IF api_get_user_agent(connection) = NULL
        THEN PreCheckResult(MHD_HTTP_FORBIDDEN, "response_403", ep,
                 <<Warning("request to API path %s has no User-Agent header", path)>>)
        ELSE IF method_not_accepted(ep, method)
        THEN PreCheckResult(MHD_HTTP_METHOD_NOT_ALLOWED, "response_405", ep,
                 <<Warning("method not allowed for %s", path)>>)
        ELSE IF method = HTTP_METHOD_POST
                /\ (content_type = <<>> \/ content_type[1] # <<"application/json">>)
        THEN PreCheckResult(MHD_HTTP_UNSUPPORTED_MEDIA_TYPE, "response_415", ep,
                 <<Warning("invalid Content-Type %s", NULL)>>)
        ELSE PreCheckResult(MHD_HTTP_OK, NULL, ep, <<>>)

\* api_handler_pre_check with the method gate ahead of the token gate
api_handler_pre_check_method_first(connection, method, path) ==
    LET ep == get_api_endpoint(path)
        content_type == api_get_content_type(connection)
    IN  IF ep = NoEndpoint
        THEN PreCheckResult(MHD_HTTP_NOT_FOUND, "response_404", ep,
                 <<Warning("request to API invalid path %s", path)>>)
        ELSE IF api_get_user_agent(connection) = NULL
        THEN PreCheckResult(MHD_HTTP_FORBIDDEN, "response_403", ep,
                 <<Warning("request to API path %s has no User-Agent header", path)>>)
        ELSE IF method_not_accepted(ep, method)
        THEN PreCheckResult(MHD_HTTP_METHOD_NOT_ALLOWED, "response_405", ep,
                 <<Warning("method not allowed for %s", path)>>)
        ELSE IF api_endpoint_table[ep].need_token # 0 /\ api_get_token(connection) = NULL
        THEN PreCheckResult(MHD_HTTP_BAD_REQUEST, "response_400", ep,
                 <<Warning("request to API path %s has no X-Armadito-Token header", path)>>)
        ELSE IF method = HTTP_METHOD_POST
                /\ (content_type = <<>> \/ content_type[1] # <<"application/json">>)
        THEN PreCheckResult(MHD_HTTP_UNSUPPORTED_MEDIA_TYPE, "response_415", ep,
                 <<Warning("invalid Content-Type %s", NULL)>>)
        ELSE PreCheckResult(MHD_HTTP_OK, NULL, ep, <<>>)

\* api_handler_pre_check with a token gate that asks the client table: a token
\* that is missing or not registered is turned down
api_handler_pre_check_registered(connection, method, path) ==
    LET ep == get_api_endpoint(path)
        content_type == api_get_content_type(connection)
    IN  IF ep = NoEndpoint
        THEN PreCheckResult(MHD_HTTP_NOT_FOUND, "response_404", ep,
                 <<Warning("request to API invalid path %s", path)>>)
        ELSE IF api_get_user_agent(connection) = NULL
        THEN PreCheckResult(MHD_HTTP_FORBIDDEN, "response_403", ep,
                 <<Warning("request to API path %s has no User-Agent header", path)>>)
        ELSE IF api_endpoint_table[ep].need_token # 0
                /\ api_get_token(connection) \notin DOMAIN a.client_table
        THEN PreCheckResult(MHD_HTTP_BAD_REQUEST, "response_400", ep,
                 <<Warning("request to API path %s has no X-Armadito-Token header", path)>>)
        ELSE IF method_not_accepted(ep, method)
        THEN PreCheckResult(MHD_HTTP_METHOD_NOT_ALLOWED, "response_405", ep,
                 <<Warning("method not allowed for %s", path)>>)
        ELSE IF method = HTTP_METHOD_POST
                /\ (content_type = <<>> \/ content_type[1] # <<"application/json">>)
        THEN PreCheckResult(MHD_HTTP_UNSUPPORTED_MEDIA_TYPE, "response_415", ep,
                 <<Warning("invalid Content-Type %s", NULL)>>)
        ELSE PreCheckResult(MHD_HTTP_OK, NULL, ep, <<>>)

\* lines 135-187
api_handler_pre_check(connection, method, path) ==
    LET ep == get_api_endpoint(path)
        content_type == api_get_content_type(connection)
    IN  IF ep = NoEndpoint
        THEN PreCheckResult(MHD_HTTP_NOT_FOUND, "response_404", ep,
                 <<Warning("request to API invalid path %s", path)>>)
        ELSE IF api_get_user_agent(connection) = NULL
        THEN PreCheckResult(MHD_HTTP_FORBIDDEN, "response_403", ep,
                 <<Warning("request to API path %s has no User-Agent header", path)>>)
        ELSE IF api_endpoint_table[ep].need_token # 0 /\ api_get_token(connection) = NULL
        THEN PreCheckResult(MHD_HTTP_BAD_REQUEST, "response_400", ep,
                 <<Warning("request to API path %s has no X-Armadito-Token header", path)>>)
        ELSE IF method_not_accepted(ep, method)
        THEN PreCheckResult(MHD_HTTP_METHOD_NOT_ALLOWED, "response_405", ep,
                 <<Warning("method not allowed for %s", path)>>)
        ELSE IF method = HTTP_METHOD_POST
                /\ (content_type = <<>> \/ content_type[1] # <<"application/json">>)
        THEN PreCheckResult(MHD_HTTP_UNSUPPORTED_MEDIA_TYPE, "response_415", ep,
                 <<Warning("invalid Content-Type %s", NULL)>>)
        ELSE PreCheckResult(MHD_HTTP_OK, NULL, ep, <<>>)

(***************************************************************************)
(* Standard responses of the handler.                                      *)
(***************************************************************************)
create_std_response(json) ==
    [body |-> json,
     headers |-> {<<"Content-Type", "application/json">>, <<"Connection", "close">>}]

\* a client table without entries, as g_hash_table_new_full returns it
EmptyTable == [token \in {} |-> 0]

api_handler_new ==
    [client_table |-> EmptyTable,
     response_400 |-> create_std_response(JSON_400),
     response_403 |-> create_std_response(JSON_403),
     response_404 |-> create_std_response(JSON_404),
     response_405 |-> create_std_response(JSON_405),
     response_415 |-> create_std_response(JSON_415),
     response_422 |-> create_std_response(JSON_422)]

\* MHD_queue_response: the response as it goes on the connection
MHD_queue_response(q, status, resp) ==
    Append(q, [status |-> status, body |-> resp.body, headers |-> resp.headers])

(***************************************************************************)
(* jansson objects.  Each has a reference count, the number of times it    *)
(* was created and destroyed, and its value.                               *)
(***************************************************************************)
JsonObjs == {"j_request", "j_response", "j_error", "j_code", "j_message"}

EmptyHeap ==
    [o \in JsonObjs |-> [refcount |-> 0, created |-> 0, destroyed |-> 0, value |-> NULL]]

NoMembers == [k \in {} |-> NULL]

Range(f) == {f[k] : k \in DOMAIN f}

\* a new object holding value v, with one reference
json_new(h, o, v) ==
    [h EXCEPT ![o] = [refcount |-> 1, created |-> @.created + 1,
                      destroyed |-> @.destroyed, value |-> v]]

json_incref(h, o) == [h EXCEPT ![o].refcount = @ + 1]

\* one reference less on a value without members; destroyed at zero
DropLeaf(e) ==
    IF e.refcount - 1 = 0
    THEN [e EXCEPT !.refcount = 0, !.destroyed = @ + 1]
    ELSE [e EXCEPT !.refcount = @ - 1]

\* json_decref; destroying the j_error object drops one reference of each member
json_decref(h, m, o) ==
    IF o = NULL THEN h
    ELSE IF h[o].refcount - 1 # 0 THEN [h EXCEPT ![o].refcount = @ - 1]
    ELSE [x \in JsonObjs |->
             IF x = o THEN [h[x] EXCEPT !.refcount = 0, !.destroyed = @ + 1]
             ELSE IF o = "j_error" /\ x \in Range(m) THEN DropLeaf(h[x])
             ELSE h[x]]

\* json_object_set: the object takes a new reference on the value
json_object_set(h, value) == json_incref(h, value)

\* json_dumps: <<>> for the NULL it returns on a NULL value, else <<text>>, the
\* text being the serialised value
json_dumps(h, m, j) ==
    IF j = NULL THEN <<>>
    ELSE IF j = "j_error" THEN << <<"json", [k \in DOMAIN m |-> h[m[k]].value]>> >>
    ELSE << <<"json", h[j].value>> >>

(***************************************************************************)
(* Request bodies and json_loads(post_data, post_data_size, &error): the   *)
(* second parameter of json_loads is its flags, so the size of the body    *)
(* selects the decoding flags.  A body is a JSON text when it is the       *)
(* object "{}", or starts with it when the end-of-input check is disabled. *)
(***************************************************************************)
BodyBytes == {"{", "}"}

Bodies == SeqsUpTo(BodyBytes, MaxBody)

JSON_DISABLE_EOF_CHECK == 2

HasFlag(flags, f) == (flags \div f) % 2 = 1

json_loads(input, flags) ==
    IF Len(input) >= 2 /\ input[1] = "{" /\ input[2] = "}"
       /\ (Len(input) = 2 \/ HasFlag(flags, JSON_DISABLE_EOF_CHECK))
    THEN << <<"object", SubSeq(input, 1, 2)>> >>
    ELSE <<>>

\* <<>> for NULL with a warning, else <<the parsed document>>
api_parse_json_request(data, post_data_size) ==
    LET doc == json_loads(data, post_data_size)
    IN  [doc |-> doc,
         log |-> IF doc = <<>> THEN <<Warning("error in JSON parsing: %s", NULL)>> ELSE <<>>]

\* a callback invocation: what was called, the request body it was given, the
\* value it returned and the payload it stored in *j_response
Call(cb, body, result, out) == [cb |-> cb, j_request |-> body, result |-> result, out |-> out]

\* the test of line 259 without the size: an empty POST body is parsed too
has_body_to_parse_any_size(method, post_data_size) == method = HTTP_METHOD_POST

\* method == HTTP_METHOD_POST && post_data_size
has_body_to_parse(method, post_data_size) ==
    method = HTTP_METHOD_POST /\ post_data_size # 0

(***************************************************************************)
(* The inputs of a request.                                                *)
(***************************************************************************)
DeclaredPaths == {api_endpoint_table[i].path : i \in 1..(Len(api_endpoint_table) - 1)}

Paths == DeclaredPaths \cup {"/nope"}

UserAgents == {NULL, "curl/7.50"}

Tokens == {NULL, "token-1"}

\* Only a POST request has its Content-Type header looked up (line 172): the
\* other methods come with a few headers, POST with every header of the bound.
PlainContentTypes == {<<>>, << <<"application/json">> >>, << <<"text/plain">> >>}

Requests ==
    {r \in [path : Paths, method : Methods, user_agent : UserAgents, token : Tokens,
            content_type : ContentTypes] :
        r.method = HTTP_METHOD_POST \/ r.content_type \in PlainContentTypes}

\* what a callback can hand back as *j_response
Payloads == {NULL, "payload-a", "payload-b"}

(***************************************************************************)
(* The client registry: a GHashTable from token to api_client, created     *)
(* with api_client_free as the destroy function of its values.  A client   *)
(* is a number, NoClient the NULL pointer.                                 *)
(***************************************************************************)
Clients == 1..MaxClients

NoClient == 0

RegTokens == {"token-1", "token-2"}

\* the worker threads of the transport
Threads == {"worker-1", "worker-2"}

api_client_free(f, client) == [f EXCEPT ![client] = @ + 1]

g_hash_table_contains(table, key) == key \in DOMAIN table

g_hash_table_lookup(table, key) ==
    IF key \in DOMAIN table THEN table[key] ELSE NoClient

\* a new key gets an entry; the value of a key already there is replaced and
\* the value it had goes to the destroy function
g_hash_table_insert(table, f, key, value) ==
    IF key \in DOMAIN table
    THEN [table |-> [table EXCEPT ![key] = value],
          freed |-> api_client_free(f, table[key])]
    ELSE [table |-> [k \in DOMAIN table \cup {key} |->
                         IF k = key THEN value ELSE table[k]],
          freed |-> f]

\* g_hash_table_steal: the entry is removed, the destroy function is not called
g_hash_table_remove_steal(table, f, key) ==
    IF key \in DOMAIN table
    THEN [found |-> TRUE,
          table |-> [k \in DOMAIN table \ {key} |-> table[k]],
          freed |-> f]
    ELSE [found |-> FALSE, table |-> table, freed |-> f]

\* the entry of key is removed and its value goes to the destroy function
g_hash_table_remove(table, f, key) ==
    IF key \in DOMAIN table
    THEN [found |-> TRUE,
          table |-> [k \in DOMAIN table \ {key} |-> table[k]],
          freed |-> api_client_free(f, table[key])]
    ELSE [found |-> FALSE, table |-> table, freed |-> f]

\* api_handler_add_client without the g_hash_table_contains of line 320
api_handler_add_client_unchecked(table, f, token, client) ==
    LET ins == g_hash_table_insert(table, f, token, client)
    IN  [ret |-> 0, table |-> ins.table, freed |-> ins.freed, log |-> <<>>]

\* lines 318-328
api_handler_add_client(table, f, token, client) ==
    IF g_hash_table_contains(table, token)
    THEN [ret |-> 1, table |-> table, freed |-> f,
          log |-> <<Warning("API token %s already registered", token)>>]
    ELSE LET ins == g_hash_table_insert(table, f, token, client)
         IN  [ret |-> 0, table |-> ins.table, freed |-> ins.freed, log |-> <<>>]

\* lines 330-340
api_handler_get_client(table, token) ==
    LET c == g_hash_table_lookup(table, token)
    IN  [client |-> c,
         log |-> IF c = NoClient
                 THEN <<Warning("API token %s is not registered", token)>>
                 ELSE <<>>]

\* lines 342-354
api_handler_remove_client(table, f, token) ==
    LET rem == g_hash_table_remove(table, f, token)
    IN  IF ~rem.found
        THEN [ret |-> 1, table |-> rem.table, freed |-> rem.freed,
              log |-> <<Warning("API token %s is not registered", token)>>]
        ELSE [ret |-> 0, table |-> rem.table, freed |-> rem.freed, log |-> <<>>]

\* a registry operation as the history keeps it
RegistryOp(op, token, client, r, table, f, warnings) ==
    [op |-> op, token |-> token, client |-> client, ret |-> r,
     table |-> table, freed |-> f, log |-> warnings]

NoneFreed == [c \in Clients |-> 0]

IdleThread == [pc |-> "idle", op |-> "none", token |-> NULL, client |-> NoClient]

\* nothing has happened to the registry yet
RegistryIdle ==
    /\ freed = NoneFreed
    /\ last = RegistryOp("none", NULL, NoClient, 0, EmptyTable, NoneFreed, <<>>)
    /\ lookups = {}
    /\ th = [t \in Threads |-> IdleThread]
    /\ done_ops = {}

\* no request in flight: the locals of api_handler_serve hold nothing
Idle ==
    /\ pc = "idle"
    /\ req = [path |-> NULL, method |-> NULL, user_agent |-> NULL, token |-> NULL,
              content_type |-> <<>>]
    /\ post_data = <<>>
    /\ endpoint = NoEndpoint
    /\ http_status_code = 0
    /\ response = NULL
    /\ j_request = NULL
    /\ j_response = NULL
    /\ ret = 0
    /\ heap = EmptyHeap
    /\ members = NoMembers
    /\ calls = <<>>
    /\ log = <<>>
    /\ queued = <<>>

Init ==
    /\ Idle
    /\ a = api_handler_new
    /\ mhd = [created |-> 0, destroyed |-> 0, std_destroyed |-> {}]
    /\ RegistryIdle

(***************************************************************************)
(* api_handler_serve, step by step.                                        *)
(***************************************************************************)

\* the transport calls api_handler_serve for a new request
Receive(r) ==
    /\ pc = "idle"
    /\ pc' = "pre_check"
    /\ req' = r
    /\ UNCHANGED <<post_data, endpoint, http_status_code, response, j_request,
                   j_response, ret, a, mhd, regvars, heap, members, calls, log, queued>>

\* api_handler_serve has returned: its locals are gone and the transport is
\* ready for the next request
Return ==
    /\ pc = "done"
    /\ pc' = "idle"
    /\ req' = [path |-> NULL, method |-> NULL, user_agent |-> NULL, token |-> NULL,
               content_type |-> <<>>]
    /\ post_data' = <<>>
    /\ endpoint' = NoEndpoint
    /\ http_status_code' = 0
    /\ response' = NULL
    /\ j_request' = NULL
    /\ j_response' = NULL
    /\ ret' = 0
    /\ heap' = EmptyHeap
    /\ members' = NoMembers
    /\ calls' = <<>>
    /\ log' = <<>>
    /\ queued' = <<>>
    /\ mhd' = [mhd EXCEPT !.created = 0, !.destroyed = 0]
    /\ UNCHANGED <<a, regvars>>

\* line 255
PreCheck ==
    /\ pc = "pre_check"
    /\ LET res == api_handler_pre_check(req, req.method, req.path)
       IN  /\ http_status_code' = res.status
           /\ response' = res.response
           /\ endpoint' = res.endpoint
           /\ log' = log \o res.log
           /\ pc' = IF res.status # MHD_HTTP_OK THEN "ret_pre_check" ELSE "parse"
    /\ UNCHANGED <<req, post_data, j_request, j_response, ret, a, mhd, regvars, heap, members,
                   calls, queued>>

\* ReturnPreCheckError with the MHD_destroy_response of line 222 applied to
\* the standard response it has queued
ReturnPreCheckError_destroy ==
    /\ pc = "ret_pre_check"
    /\ queued' = MHD_queue_response(queued, http_status_code, a[response])
    /\ mhd' = [mhd EXCEPT !.std_destroyed = @ \cup {response}]
    /\ pc' = "done"
    /\ UNCHANGED <<req, post_data, endpoint, http_status_code, response, j_request,
                   j_response, ret, a, regvars, heap, members, calls, log>>

\* line 257
ReturnPreCheckError ==
    /\ pc = "ret_pre_check"
    /\ queued' = MHD_queue_response(queued, http_status_code, a[response])
    /\ pc' = "done"
    /\ UNCHANGED <<req, post_data, endpoint, http_status_code, response, j_request,
                   j_response, ret, a, mhd, regvars, heap, members, calls, log>>

\* ParseBody without the return of line 263: a body that does not parse is
\* logged and the request goes on to the parameter check
ParseBody_no_return(data) ==
    /\ pc = "parse"
    /\ post_data' = data
    /\ LET post_data_size == Len(data)
       IN  IF has_body_to_parse(req.method, post_data_size)
           THEN LET parsed == api_parse_json_request(data, post_data_size)
                IN  /\ calls' = Append(calls,
                                    Call("api_parse_json_request", NULL,
                                         IF parsed.doc = <<>> THEN 1 ELSE 0, NULL))
                    /\ IF parsed.doc = <<>>
                       THEN /\ log' = (log \o parsed.log)
                                \o <<Warning("request to API path %s does not contain valid JSON",
                                             req.path)>>
                            /\ pc' = "check"
                            /\ UNCHANGED <<j_request, heap>>
                       ELSE /\ j_request' = "j_request"
                            /\ heap' = json_new(heap, "j_request", parsed.doc[1])
                            /\ pc' = "check"
                            /\ UNCHANGED log
           ELSE /\ pc' = "check"
                /\ UNCHANGED <<j_request, heap, calls, log>>
    /\ UNCHANGED <<req, endpoint, http_status_code, response, j_response, ret, a, mhd, regvars,
                   members, queued>>

\* lines 259-265; the body is read here for the first time
ParseBody(data) ==
    /\ pc = "parse"
    /\ post_data' = data
    /\ LET post_data_size == Len(data)
       IN  IF has_body_to_parse(req.method, post_data_size)
           THEN LET parsed == api_parse_json_request(data, post_data_size)
                IN  /\ calls' = Append(calls,
                                    Call("api_parse_json_request", NULL,
                                         IF parsed.doc = <<>> THEN 1 ELSE 0, NULL))
                    /\ IF parsed.doc = <<>>
                       THEN /\ log' = (log \o parsed.log)
                                \o <<Warning("request to API path %s does not contain valid JSON",
                                             req.path)>>
                            /\ pc' = "ret_400"
                            /\ UNCHANGED <<j_request, heap>>
                       ELSE /\ j_request' = "j_request"
                            /\ heap' = json_new(heap, "j_request", parsed.doc[1])
                            /\ pc' = "check"
                            /\ UNCHANGED log
           ELSE /\ pc' = "check"
                /\ UNCHANGED <<j_request, heap, calls, log>>
    /\ UNCHANGED <<req, endpoint, http_status_code, response, j_response, ret, a, mhd, regvars,
                   members, queued>>

\* line 263
ReturnBadRequest ==
    /\ pc = "ret_400"
    /\ queued' = MHD_queue_response(queued, MHD_HTTP_BAD_REQUEST, a.response_400)
    /\ pc' = "done"
    /\ UNCHANGED <<req, post_data, endpoint, http_status_code, response, j_request,
                   j_response, ret, a, mhd, regvars, heap, members, calls, log>>

\* CheckParams without the return of line 270: a failed check is logged and
\* the request is processed all the same
CheckParams_no_return(failed) ==
    /\ pc = "check"
    /\ IF api_endpoint_table[endpoint].check_cb # NULL
       THEN /\ calls' = Append(calls, Call(api_endpoint_table[endpoint].check_cb, j_request,
                                           IF failed THEN 1 ELSE 0, NULL))
            /\ IF failed
               THEN /\ log' = Append(log,
                          Warning("request to API path %s does not contain valid parameters",
                                  req.path))
                    /\ pc' = "process"
               ELSE /\ pc' = "process"
                    /\ UNCHANGED log
       ELSE /\ failed = FALSE
            /\ pc' = "process"
            /\ UNCHANGED <<calls, log>>
    /\ UNCHANGED <<req, post_data, endpoint, http_status_code, response, j_request,
                   j_response, ret, a, mhd, regvars, heap, members, queued>>

\* lines 268-269; failed is what the check callback returns
CheckParams(failed) ==
    /\ pc = "check"
    /\ IF api_endpoint_table[endpoint].check_cb # NULL
       THEN /\ calls' = Append(calls, Call(api_endpoint_table[endpoint].check_cb, j_request,
                                           IF failed THEN 1 ELSE 0, NULL))
            /\ IF failed
               THEN /\ log' = Append(log,
                          Warning("request to API path %s does not contain valid parameters",
                                  req.path))
                    /\ pc' = "ret_422"
               ELSE /\ pc' = "process"
                    /\ UNCHANGED log
       ELSE /\ failed = FALSE
            /\ pc' = "process"
            /\ UNCHANGED <<calls, log>>
    /\ UNCHANGED <<req, post_data, endpoint, http_status_code, response, j_request,
                   j_response, ret, a, mhd, regvars, heap, members, queued>>

\* line 270
ReturnUnprocessable ==
    /\ pc = "ret_422"
    /\ queued' = MHD_queue_response(queued, MHD_HTTP_UNPROCESSABLE_ENTITY, a.response_422)
    /\ pc' = "done"
    /\ UNCHANGED <<req, post_data, endpoint, http_status_code, response, j_request,
                   j_response, ret, a, mhd, regvars, heap, members, calls, log>>

\* lines 274-282; r and payload are what the process callback returns
Process(r, payload) ==
    /\ pc = "process"
    /\ calls' = Append(calls, Call(api_endpoint_table[endpoint].process_cb, j_request,
                                   r, payload))
    /\ ret' = r
    /\ j_response' = IF payload = NULL THEN NULL ELSE "j_response"
    /\ LET h1 == IF payload = NULL THEN heap ELSE json_new(heap, "j_response", payload)
       IN  heap' = IF j_request # NULL THEN json_decref(h1, members, j_request) ELSE h1
    /\ IF r # 0
       THEN /\ log' = Append(log, Warning("processing request to API path %s failed",
                                          req.path))
            /\ pc' = "queue_500"
       ELSE /\ pc' = "queue_200"
            /\ UNCHANGED log
    /\ UNCHANGED <<req, post_data, endpoint, http_status_code, response, j_request,
                   a, mhd, regvars, members, queued>>

\* the headers api_queue_response adds to the response it creates
ApiHeaders ==
    {<<"Content-Type", "application/json">>, <<"Connection", "close">>,
     <<"Access-Control-Allow-Origin", "*">>, <<"X-Armadito-Api-Version", "armadito.v0">>}

(***************************************************************************)
(* api_queue_response on heap h.  json_dumps returns NULL for a NULL       *)
(* value and strlen(NULL) is undefined: the call then either faults or     *)
(* goes on with whatever bytes it finds.                                   *)
(***************************************************************************)
api_queue_response(h, m, http_status, j) ==
    LET json_buff == json_dumps(h, m, j)
    IN  IF json_buff = <<>>
        THEN \/ /\ pc' = "fault"
                /\ heap' = h
                /\ UNCHANGED <<queued, mhd>>
             \/ /\ queued' = MHD_queue_response(queued, http_status,
                                 [body |-> <<"undefined">>, headers |-> ApiHeaders])
                /\ mhd' = [mhd EXCEPT !.created = @ + 1, !.destroyed = @ + 1]
                /\ heap' = json_decref(h, m, j)
                /\ pc' = "done"
        ELSE /\ queued' = MHD_queue_response(queued, http_status,
                              [body |-> json_buff[1], headers |-> ApiHeaders])
             /\ mhd' = [mhd EXCEPT !.created = @ + 1, !.destroyed = @ + 1]
             /\ heap' = json_decref(h, m, j)
             /\ pc' = "done"

\* line 283: api_queue_response_500 wraps the payload inside a JSON error object
QueueResponse500 ==
    /\ pc = "queue_500"
    /\ LET h1 == json_new(heap, "j_error", "object")
           h2 == json_object_set(json_new(h1, "j_code", MHD_HTTP_INTERNAL_SERVER_ERROR),
                                 "j_code")
           h3 == json_object_set(
                     json_new(h2, "j_message",
                              "Request processing triggered an internal error"),
                     "j_message")
           h4 == IF j_response # NULL THEN json_object_set(h3, j_response) ELSE h3
           m == IF j_response # NULL
                THEN [k \in {"code", "message", "data"} |->
                         IF k = "code" THEN "j_code"
                         ELSE IF k = "message" THEN "j_message" ELSE j_response]
                ELSE [k \in {"code", "message"} |->
                         IF k = "code" THEN "j_code" ELSE "j_message"]
       IN  /\ members' = m
           /\ api_queue_response(h4, m, MHD_HTTP_INTERNAL_SERVER_ERROR, "j_error")
    /\ UNCHANGED <<req, post_data, endpoint, http_status_code, response, j_request,
                   j_response, ret, a, regvars, calls, log>>

\* line 286
QueueResponse200 ==
    /\ pc = "queue_200"
    /\ api_queue_response(heap, members, MHD_HTTP_OK, j_response)
    /\ UNCHANGED <<req, post_data, endpoint, http_status_code, response, j_request,
                   j_response, ret, a, regvars, members, calls, log>>

Next ==
    \/ \E r \in Requests : Receive(r)
    \/ PreCheck
    \/ ReturnPreCheckError
    \/ \E data \in Bodies : ParseBody(data)
    \/ ReturnBadRequest
    \/ \E failed \in BOOLEAN : CheckParams(failed)
    \/ ReturnUnprocessable
    \/ \E r \in {0, 1}, payload \in Payloads : Process(r, payload)
    \/ QueueResponse500
    \/ QueueResponse200
    \/ Return

Spec == Init /\ [][Next]_vars

\* the requests arrive at a handler whose client table is empty or holds a
\* client for token-1
InitGate ==
    /\ Idle
    /\ a \in {api_handler_new,
              [api_handler_new EXCEPT !.client_table = [token \in {"token-1"} |-> 1]]}
    /\ mhd = [created |-> 0, destroyed |-> 0, std_destroyed |-> {}]
    /\ RegistryIdle

SpecGate == InitGate /\ [][Next]_vars

(***************************************************************************)
(* The registry called from one thread: every call runs to its end before  *)
(* the next one starts.  The caller of api_handler_add_client passes a     *)
(* client it owns: one that is not in the table and has not been freed.    *)
(***************************************************************************)
Owned(client) ==
    /\ client \notin Range(a.client_table)
    /\ freed[client] = 0
    /\ \A t \in Threads : th[t].op = "add" => th[t].client # client

AddClient(token, client) ==
    /\ Owned(client)
    /\ LET r == api_handler_add_client(a.client_table, freed, token, client)
       IN  /\ a' = [a EXCEPT !.client_table = r.table]
           /\ freed' = r.freed
           /\ last' = RegistryOp("add", token, client, r.ret, a.client_table, freed, r.log)
    /\ UNCHANGED <<reqvars, mhd, lookups, th, done_ops>>

GetClient(token) ==
    /\ LET r == api_handler_get_client(a.client_table, token)
       IN  last' = RegistryOp("get", token, r.client, 0, a.client_table, freed, r.log)
    /\ lookups' = lookups \cup {token}
    /\ UNCHANGED <<reqvars, a, mhd, freed, th, done_ops>>

RemoveClient(token) ==
    /\ LET r == api_handler_remove_client(a.client_table, freed, token)
       IN  /\ a' = [a EXCEPT !.client_table = r.table]
           /\ freed' = r.freed
           /\ last' = RegistryOp("remove", token, NoClient, r.ret, a.client_table, freed,
                                 r.log)
    /\ UNCHANGED <<reqvars, mhd, lookups, th, done_ops>>

NextRegistry ==
    \/ \E token \in RegTokens, client \in Clients : AddClient(token, client)
    \/ \E token \in RegTokens : GetClient(token)
    \/ \E token \in RegTokens : RemoveClient(token)

SpecRegistry == Init /\ [][NextRegistry]_vars

(***************************************************************************)
(* The registry called from the worker threads of the transport.  The      *)
(* functions take no lock: between two calls into the hash table of one    *)
(* thread the other threads run.  Each call into the hash table is one     *)
(* step.  A thread that got a client from api_handler_get_client uses it   *)
(* until its request ends.                                                 *)
(***************************************************************************)
\* line 320: the token is looked for; lines 321-323 when it is there
AddClientContains(t, token, client) ==
    /\ th[t].pc = "idle"
    /\ Owned(client)
    /\ th' = IF g_hash_table_contains(a.client_table, token)
             THEN th
             ELSE [th EXCEPT ![t] = [pc |-> "add_insert", op |-> "add",
                                     token |-> token, client |-> client]]
    /\ UNCHANGED <<reqvars, a, mhd, freed, last, lookups, done_ops>>

\* lines 325-327
AddClientInsert(t) ==
    /\ th[t].pc = "add_insert"
    /\ LET ins == g_hash_table_insert(a.client_table, freed, th[t].token, th[t].client)
       IN  /\ a' = [a EXCEPT !.client_table = ins.table]
           /\ freed' = ins.freed
    /\ done_ops' = done_ops \cup
                       {[op |-> "add", token |-> th[t].token, client |-> th[t].client]}
    /\ th' = [th EXCEPT ![t] = IdleThread]
    /\ UNCHANGED <<reqvars, mhd, last, lookups>>

\* lines 334-339: the caller goes on with the client it was given
GetClientLookup(t, token) ==
    /\ th[t].pc = "idle"
    /\ LET r == api_handler_get_client(a.client_table, token)
       IN  th' = IF r.client = NoClient
                 THEN th
                 ELSE [th EXCEPT ![t] = [pc |-> "using", op |-> "get",
                                         token |-> token, client |-> r.client]]
    /\ lookups' = lookups \cup {token}
    /\ UNCHANGED <<reqvars, a, mhd, freed, last, done_ops>>

\* the request that asked for the client has ended
ClientUseEnd(t) ==
    /\ th[t].pc = "using"
    /\ th' = [th EXCEPT ![t] = IdleThread]
    /\ UNCHANGED <<reqvars, a, mhd, freed, last, lookups, done_ops>>

\* lines 346-353
RemoveClientCall(t, token) ==
    /\ th[t].pc = "idle"
    /\ LET r == api_handler_remove_client(a.client_table, freed, token)
       IN  /\ a' = [a EXCEPT !.client_table = r.table]
           /\ freed' = r.freed
           /\ done_ops' = IF r.ret = 0
                          THEN done_ops \cup {[op |-> "remove", token |-> token,
                                               client |-> a.client_table[token]]}
                          ELSE done_ops
    /\ UNCHANGED <<reqvars, mhd, last, lookups, th>>

NextThreads ==
    \/ \E t \in Threads, token \in RegTokens, client \in Clients :
           AddClientContains(t, token, client)
    \/ \E t \in Threads : AddClientInsert(t)
    \/ \E t \in Threads, token \in RegTokens : GetClientLookup(t, token)
    \/ \E t \in Threads : ClientUseEnd(t)
    \/ \E t \in Threads, token \in RegTokens : RemoveClientCall(t, token)

SpecThreads == Init /\ [][NextThreads]_vars

(***************************************************************************)
(* Properties of the pre-check.                                            *)
(***************************************************************************)
AfterPreCheck == pc \notin {"idle", "pre_check"}

\* the table entry declared for a known path
EntryOf(path) ==
    api_endpoint_table[CHOOSE i \in 1..(Len(api_endpoint_table) - 1) :
                           api_endpoint_table[i].path = path]

TokenEndpoints == {"/unregister", "/ping", "/event", "/scan"}

\* the part of a header ahead of its first ';' (the whole header without one)
BeforeSemicolon(s) ==
    LET n == CHOOSE k \in 0..Len(s) :
                 /\ \A i \in 1..k : s[i] # ";"
                 /\ k = Len(s) \/ s[k + 1] = ";"
    IN  SubSeq(s, 1, n)

IsJsonContentType(ct) ==
    ct # <<>> /\ BeforeSemicolon(ct[1]) = <<"application/json">>

\* the five gates in their order: does gate g turn request r down
GateFails(g, r) ==
    CASE g = 1 -> r.path \notin DeclaredPaths
      [] g = 2 -> r.user_agent = NULL
      [] g = 3 -> r.path \in TokenEndpoints /\ r.token = NULL
      [] g = 4 -> r.method \notin EntryOf(r.path).accepted_methods
      [] g = 5 -> r.method = HTTP_METHOD_POST /\ ~IsJsonContentType(r.content_type)

GateStatus == <<404, 403, 400, 405, 415>>

GateBody == <<JSON_404, JSON_403, JSON_400, JSON_405, JSON_415>>

RECURSIVE FirstFailingFrom(_, _)
FirstFailingFrom(g, r) ==
    IF g > Len(GateStatus) THEN 0
    ELSE IF GateFails(g, r) THEN g
    ELSE FirstFailingFrom(g + 1, r)

\* the first gate that turns r down, 0 when none does
FirstFailingGate(r) == FirstFailingFrom(1, r)

\* C1: the pre-check answers with the status and the body of the first gate,
\* in the order 404, 403, 400, 405, 415, that the request fails, and with 200
\* only when it fails none; an unknown path always gets 404 with the 404 body,
\* a known path without User-Agent always gets 403.  A failure is queued as is.
C1_FirstFailingGateDecides ==
    AfterPreCheck =>
        LET g == FirstFailingGate(req)
        IN  /\ g = 0 => http_status_code = MHD_HTTP_OK
            /\ g # 0 => /\ http_status_code = GateStatus[g]
                        /\ response # NULL
                        /\ a[response].body = GateBody[g]
            /\ http_status_code = MHD_HTTP_OK => \A k \in 1..Len(GateStatus) : ~GateFails(k, req)
            /\ req.path \notin DeclaredPaths =>
                   http_status_code = 404 /\ a[response].body = JSON_404
            /\ (req.path \in DeclaredPaths /\ req.user_agent = NULL) =>
                   http_status_code = 403
            /\ (pc = "done" /\ g # 0) =>
                   /\ Len(queued) = 1
                   /\ queued[1].status = GateStatus[g]
                   /\ queued[1].body = GateBody[g]

\* a POST to /scan with User-Agent, token and Content-Type text/plain was
\* answered 415 with the 415 body
C1_Witness ==
    /\ pc = "done"
    /\ req.path = "/scan" /\ req.method = HTTP_METHOD_POST
    /\ req.user_agent # NULL /\ req.token # NULL
    /\ req.content_type = << <<"text/plain">> >>
    /\ Len(queued) = 1
    /\ queued[1].status = 415 /\ queued[1].body = JSON_415

\* C2 as stated: on a token-requiring endpoint a request without token header
\* gets 400, whatever else it carries
C2_TokenlessIs400 ==
    (AfterPreCheck /\ req.path \in TokenEndpoints /\ req.token = NULL) =>
        http_status_code = 400

\* C2 amended: on a token-requiring endpoint a request with a User-Agent header
\* and without token header gets 400, whether or not its method is accepted
C2_TokenlessWithUserAgentIs400 ==
    (AfterPreCheck /\ req.path \in TokenEndpoints /\ req.token = NULL
         /\ req.user_agent # NULL) =>
        /\ http_status_code = 400
        /\ pc = "done" => Len(queued) = 1 /\ queued[1].status = 400

\* a POST to /ping (GET only) with User-Agent and without token was answered 400
C2_Witness ==
    /\ pc = "done"
    /\ req.path = "/ping" /\ req.method = HTTP_METHOD_POST
    /\ req.user_agent # NULL /\ req.token = NULL
    /\ Len(queued) = 1 /\ queued[1].status = 400

\* C3 as stated: on a declared endpoint a method outside the accepted set gets 405
C3_BadMethodIs405 ==
    (AfterPreCheck /\ req.path \in DeclaredPaths
         /\ req.method \notin EntryOf(req.path).accepted_methods) =>
        http_status_code = 405

\* C3 amended: on a declared endpoint a request that has a User-Agent header,
\* and a token header when the endpoint requires one, gets 405 when its method
\* is outside the accepted set
C3_BadMethodPastEarlierGatesIs405 ==
    (AfterPreCheck /\ req.path \in DeclaredPaths
         /\ req.user_agent # NULL
         /\ (req.path \in TokenEndpoints => req.token # NULL)
         /\ req.method \notin EntryOf(req.path).accepted_methods) =>
        /\ http_status_code = 405
        /\ pc = "done" => Len(queued) = 1 /\ queued[1].status = 405

\* a GET of /scan (POST only) with User-Agent and token was answered 405
C3_Witness ==
    /\ pc = "done"
    /\ req.path = "/scan" /\ req.method = HTTP_METHOD_GET
    /\ req.user_agent # NULL /\ req.token # NULL
    /\ Len(queued) = 1 /\ queued[1].status = 405

JsonWithCharset == << <<"application/json", ";", " charset=utf-8">> >>

\* C4 as stated: every POST with Content-Type text/plain or without
\* Content-Type gets 415, every POST with "application/json; charset=utf-8"
\* passes validation
C4_PostContentTypeDecides ==
    (AfterPreCheck /\ req.method = HTTP_METHOD_POST) =>
        /\ req.content_type \in {<<>>, << <<"text/plain">> >>} => http_status_code = 415
        /\ req.content_type = JsonWithCharset => http_status_code = MHD_HTTP_OK

\* C4 amended: for a POST that passes the gates ahead of the Content-Type gate
\* (known path, User-Agent, token if required, POST accepted) validation passes
\* when the header up to its first ';' is exactly application/json and the
\* answer is 415 otherwise: 415 for text/plain and for no Content-Type, pass
\* for "application/json; charset=utf-8"
C4_PostPastEarlierGates ==
    (AfterPreCheck /\ req.method = HTTP_METHOD_POST
         /\ \A g \in 1..4 : ~GateFails(g, req)) =>
        /\ http_status_code = (IF IsJsonContentType(req.content_type)
                               THEN MHD_HTTP_OK ELSE 415)
        /\ req.content_type \in {<<>>, << <<"text/plain">> >>} => http_status_code = 415
        /\ req.content_type = JsonWithCharset => http_status_code = MHD_HTTP_OK

\* a POST to /scan with "application/json; charset=utf-8" passed validation
C4_Witness ==
    /\ pc = "parse"
    /\ req.method = HTTP_METHOD_POST
    /\ req.content_type = JsonWithCharset
    /\ http_status_code = MHD_HTTP_OK

(***************************************************************************)
(* Properties of api_handler_serve.                                        *)
(***************************************************************************)
ProcessCallbacks ==
    {api_endpoint_table[i].process_cb : i \in 1..(Len(api_endpoint_table) - 1)}

CallsOf(cbs) == SelectSeq(calls, LAMBDA c : c.cb \in cbs)

ParseCalls == CallsOf({"api_parse_json_request"})

CheckCalls == CallsOf({"scan_check_cb"})

ProcessCalls == CallsOf(ProcessCallbacks)

Validated == AfterPreCheck /\ http_status_code = MHD_HTTP_OK

ParseFailed == \E i \in 1..Len(calls) :
                   calls[i].cb = "api_parse_json_request" /\ calls[i].result # 0

CheckFailed == \E i \in 1..Len(calls) :
                   calls[i].cb = "scan_check_cb" /\ calls[i].result # 0

\* the request has left the body-parsing stage
PastParse == pc \notin {"idle", "pre_check", "parse"}

\* the request has left the parameter-check stage
PastCheck ==
    \/ pc \in {"ret_422", "process", "queue_500", "queue_200", "fault"}
    \/ pc = "done" /\ Validated /\ ~ParseFailed

\* C5: the body is parsed exactly when validation passed, the method is POST
\* and the body is not empty; a failed parse is answered 400 with the 400 body
\* and no callback of the endpoint is invoked for the request
C5_ParseOnlyPostedBody ==
    /\ Len(ParseCalls) <= 1
    /\ ~PastParse => Len(ParseCalls) = 0
    /\ PastParse =>
           (Len(ParseCalls) = 1 <=>
                (Validated /\ req.method = HTTP_METHOD_POST /\ Len(post_data) # 0))
    /\ ParseFailed =>
           /\ pc \in {"ret_400", "done"}
           /\ Len(CheckCalls) = 0 /\ Len(ProcessCalls) = 0
           /\ pc = "done" =>
                  /\ Len(queued) = 1
                  /\ queued[1].status = 400 /\ queued[1].body = JSON_400

\* a POST to /scan with the body "{" was answered 400, no callback invoked
C5_Witness ==
    /\ pc = "done"
    /\ req.path = "/scan" /\ post_data = <<"{">>
    /\ ParseFailed
    /\ Len(calls) = 1
    /\ Len(queued) = 1 /\ queued[1].status = 400

\* C6: a declared check callback is invoked once, with the parsed body or with
\* NULL when no body was parsed; when it fails the answer is 422 with the 422
\* body and the process callback is not invoked; an endpoint without check
\* callback passes the stage; the check callback is never invoked for a GET
C6_CheckCallbackGuardsProcess ==
    /\ \A i \in 1..Len(calls) :
           calls[i].cb = "scan_check_cb" =>
               /\ req.method # HTTP_METHOD_GET
               /\ EntryOf(req.path).check_cb = "scan_check_cb"
               /\ calls[i].j_request =
                      (IF heap["j_request"].created > 0 THEN "j_request" ELSE NULL)
    /\ PastCheck =>
           Len(CheckCalls) = (IF EntryOf(req.path).check_cb # NULL THEN 1 ELSE 0)
    /\ ~PastCheck => Len(CheckCalls) = 0
    /\ CheckFailed =>
           /\ pc \in {"ret_422", "done"}
           /\ Len(ProcessCalls) = 0
           /\ pc = "done" =>
                  /\ Len(queued) = 1
                  /\ queued[1].status = 422 /\ queued[1].body = JSON_422
    /\ (PastCheck /\ ~CheckFailed) =>
           /\ pc # "ret_422"
           /\ pc # "process" => Len(ProcessCalls) = 1

\* a POST to /scan whose parsed body the check callback turned down was
\* answered 422
C6_Witness ==
    /\ pc = "done"
    /\ req.path = "/scan"
    /\ Len(CheckCalls) = 1
    /\ CheckCalls[1].j_request = "j_request" /\ CheckCalls[1].result # 0
    /\ Len(queued) = 1 /\ queued[1].status = 422

\* the JSON error object of a failed processing
Error500(payload) ==
    IF payload = NULL
    THEN [code |-> 500, message |-> "Request processing triggered an internal error"]
    ELSE [code |-> 500, message |-> "Request processing triggered an internal error",
          data |-> payload]

\* C7: once the process callback has returned, success is answered 200 with
\* the payload of the callback, failure is answered 500 with the error object
\* that holds the payload under data exactly when the callback gave one
C7_ProcessOutcomeDecidesResponse ==
    (pc \in {"done", "fault"} /\ Len(ProcessCalls) = 1) =>
        /\ Len(queued) = 1
        /\ ProcessCalls[1].result = 0 =>
               /\ queued[1].status = 200
               /\ queued[1].body = <<"json", ProcessCalls[1].out>>
        /\ ProcessCalls[1].result # 0 =>
               /\ queued[1].status = 500
               /\ queued[1].body = <<"json", Error500(ProcessCalls[1].out)>>

\* C8: api_handler_serve never faults and returns with exactly one response
\* queued on the connection
C8_OneResponseNoFault ==
    /\ pc # "fault"
    /\ Len(queued) <= 1
    /\ pc = "done" => Len(queued) = 1

\* C9: when api_handler_serve returns, a parsed request body it created has
\* been released, exactly once
C9_ParsedBodyReleasedOnce ==
    (pc = "done" /\ heap["j_request"].created > 0) =>
        /\ heap["j_request"].refcount = 0
        /\ heap["j_request"].destroyed = 1

\* C10: when api_handler_serve returns, the payload of the process callback
\* and the envelope built around it have no reference left
C10_PayloadAndEnvelopeReleased ==
    pc = "done" =>
        \A o \in {"j_response", "j_error"} :
            heap[o].created > 0 =>
                heap[o].refcount = 0 /\ heap[o].destroyed = heap[o].created

(***************************************************************************)
(* Properties of the responses and of the stages.                          *)
(***************************************************************************)
FixedHeaders ==
    {<<"Content-Type", "application/json">>, <<"Connection", "close">>,
     <<"Access-Control-Allow-Origin", "*">>, <<"X-Armadito-Api-Version", "armadito.v0">>}

\* C14: every response queued by api_handler_serve carries Content-Type
\* application/json, Connection close, Access-Control-Allow-Origin * and
\* X-Armadito-Api-Version armadito.v0
C14_EveryResponseHasFixedHeaders ==
    \A i \in 1..Len(queued) : FixedHeaders \subseteq queued[i].headers

\* the stage a call belongs to
StageOf(c) ==
    IF c.cb = "api_parse_json_request" THEN 1
    ELSE IF c.cb = "scan_check_cb" THEN 2
    ELSE 3

\* C16: the stages run in the order validate, parse, check, process, each at
\* most once; a stage that fails ends the request; the process callback is
\* invoked at most once, after a passed validation, a successful parse of a
\* body that had to be parsed and a check callback, if declared, that did not
\* fail
C16_StagesInOrderFailFast ==
    /\ Len(ParseCalls) <= 1 /\ Len(CheckCalls) <= 1 /\ Len(ProcessCalls) <= 1
    /\ \A i, j \in 1..Len(calls) : i < j => StageOf(calls[i]) < StageOf(calls[j])
    /\ Len(calls) > 0 => Validated
    /\ (AfterPreCheck /\ ~Validated) => pc \in {"ret_pre_check", "done"}
    /\ ParseFailed => Len(calls) = 1 /\ pc \in {"ret_400", "done"}
    /\ CheckFailed => /\ calls[Len(calls)].cb = "scan_check_cb"
                      /\ pc \in {"ret_422", "done"}
    /\ Len(ProcessCalls) = 1 =>
           /\ Validated /\ ~ParseFailed /\ ~CheckFailed
           /\ (req.method = HTTP_METHOD_POST /\ Len(post_data) # 0) =>
                  Len(ParseCalls) = 1 /\ ParseCalls[1].result = 0
           /\ EntryOf(req.path).check_cb # NULL =>
                  Len(CheckCalls) = 1 /\ CheckCalls[1].result = 0
           /\ calls[Len(calls)].cb \in ProcessCallbacks

\* a POST to /scan went through parse, check and process, in this order, and
\* was answered 200
C16_Witness ==
    /\ pc = "done"
    /\ req.path = "/scan"
    /\ Len(calls) = 3
    /\ calls[1].cb = "api_parse_json_request"
    /\ calls[2].cb = "scan_check_cb"
    /\ calls[3].cb = "scan_process_cb"
    /\ Len(queued) = 1 /\ queued[1].status = 200

\* C17: on every error path a warning that names the path of the request is
\* in the log before the error response is queued
C17_ErrorPathsLogPathAndCause ==
    (\/ pc \in {"ret_pre_check", "ret_400", "ret_422", "queue_500"}
     \/ Len(queued) = 1 /\ queued[1].status # 200) =>
        \E i \in 1..Len(log) : log[i].path = req.path

\* the six standard responses of the handler and the body each was built from
StdResponses ==
    [response_400 |-> JSON_400, response_403 |-> JSON_403, response_404 |-> JSON_404,
     response_405 |-> JSON_405, response_415 |-> JSON_415, response_422 |-> JSON_422]

\* the response on the connection was built by api_queue_response
BuiltForRequest == Len(queued) = 1 /\ queued[1].status \in {200, 500}

\* C18: api_handler_serve never destroys, replaces or modifies one of the six
\* standard responses of api_handler_new, and the response api_queue_response
\* builds for a request is created once and destroyed once within the request
C18_StdResponsesKeptRequestResponseOnce ==
    /\ mhd.std_destroyed = {}
    /\ \A f \in DOMAIN StdResponses : a[f] = create_std_response(StdResponses[f])
    /\ mhd.created = mhd.destroyed
    /\ mhd.created = IF BuiltForRequest THEN 1 ELSE 0

\* a request was answered with the standard 404 response, which the handler
\* still holds as it was built
C18_Witness ==
    /\ pc = "done"
    /\ response = "response_404"
    /\ Len(queued) = 1 /\ queued[1].body = JSON_404
    /\ a.response_404.body = JSON_404
    /\ mhd.std_destroyed = {}

(***************************************************************************)
(* Properties of the client registry.                                      *)
(***************************************************************************)
\* the client api_handler_get_client returns for token now
Got(token) == api_handler_get_client(a.client_table, token).client

\* the table differs from table t at most in the entry of token
SameButFor(t, token) ==
    /\ DOMAIN a.client_table \ {token} = DOMAIN t \ {token}
    /\ \A k \in DOMAIN t \ {token} : a.client_table[k] = t[k]

\* C11: an add of a token that is registered returns failure and leaves the
\* registry as it was, the first client still being the one get returns and
\* not freed; an add of a token that is not registered returns success and
\* makes the given client the one get returns
C11_AddKeepsFirstClient ==
    last.op = "add" =>
        IF last.token \in DOMAIN last.table
        THEN /\ last.ret = 1
             /\ a.client_table = last.table
             /\ freed = last.freed
             /\ Got(last.token) = last.table[last.token]
             /\ Got(last.token) # last.client
             /\ freed[Got(last.token)] = 0
        ELSE /\ last.ret = 0
             /\ Got(last.token) = last.client
             /\ SameButFor(last.table, last.token)
             /\ freed = last.freed

\* a second add of a registered token has been turned down
C11_Witness ==
    /\ last.op = "add"
    /\ last.token \in DOMAIN last.table
    /\ last.ret = 1
    /\ Got(last.token) # last.client

\* C12: a remove of a registered token returns success, takes the entry out
\* of the table and frees its client once, so that get then finds nothing; a
\* remove of a token that is not registered returns failure and changes
\* nothing; get changes nothing; no client is freed twice and no client in
\* the table is freed
C12_RemoveReleasesOnceGetReadsOnly ==
    /\ last.op = "remove" =>
           IF last.token \in DOMAIN last.table
           THEN /\ last.ret = 0
                /\ last.token \notin DOMAIN a.client_table
                /\ Got(last.token) = NoClient
                /\ SameButFor(last.table, last.token)
                /\ freed = api_client_free(last.freed, last.table[last.token])
                /\ freed[last.table[last.token]] = 1
           ELSE /\ last.ret = 1
                /\ a.client_table = last.table
                /\ freed = last.freed
    /\ last.op = "get" =>
           /\ a.client_table = last.table
           /\ freed = last.freed
           /\ last.client = IF last.token \in DOMAIN last.table
                             THEN last.table[last.token] ELSE NoClient
    /\ \A c \in Clients : freed[c] <= 1
    /\ \A c \in Range(a.client_table) : freed[c] = 0

\* a registered client has been removed and freed
C12_Witness ==
    /\ last.op = "remove"
    /\ last.token \in DOMAIN last.table
    /\ last.ret = 0
    /\ freed[last.table[last.token]] = 1
    /\ Got(last.token) = NoClient

\* the calls of kind op on token that have returned success
Succeeded(op, token) == {o \in done_ops : o.op = op /\ o.token = token}

\* C13: the calls of the worker threads give what some order of the same
\* calls, one after the other, gives: the successful adds and removes of a
\* token alternate, so there is one add more than removes when the token is
\* in the table and as many when it is not, and a client is freed only by a
\* successful remove, never by an add
C13_ConcurrentCallsAsSomeSequentialOrder ==
    /\ \A token \in RegTokens :
           Cardinality(Succeeded("add", token)) =
               Cardinality(Succeeded("remove", token))
                   + (IF token \in DOMAIN a.client_table THEN 1 ELSE 0)
    /\ \A c \in Clients :
           freed[c] > 0 => \E o \in done_ops : o.op = "remove" /\ o.client = c

\* C19: a client a thread got from api_handler_get_client and still uses has
\* not been freed
C19_ClientInUseNotFreed ==
    \A t \in Threads : th[t].pc = "using" => freed[th[t].client] = 0

\* the gate has let through a request with a token for an endpoint that needs one
TokenGated == Validated /\ req.path \in TokenEndpoints /\ req.token # NULL

====
